---- MODULE Spec2Model ----
(***************************************************************************)
(* kdev: a CLI that creates, attaches to and removes dev pods through the  *)
(* Kubernetes API (src/main.go).  Each invocation of the CLI is a process  *)
(* whose steps are the API calls it makes, in the order cmdUp, cmdAttach   *)
(* and cmdRM make them; the namespace's objects are the shared state.      *)
(* Strings are sequences of one-character strings, so that the substring   *)
(* test of cmdUp and the SplitN of its key=value parsing are computed.     *)
(***************************************************************************)
EXTENDS Naturals, Integers, Sequences, FiniteSets, TLC

VARIABLES
    pvcs,       \* names of the PersistentVolumeClaims of the namespace
    sas,        \* names of the ServiceAccounts of the namespace
    pods,       \* names of the Pods of the namespace
    running,    \* names of the Pods whose container is running
    inv,        \* inv[p]: the invocation process p is executing
    hist,       \* summaries of the invocations that finished (scenario runs)
    entries,    \* a key=value list given to cmdUp (parsing runs)
    parsed      \* what cmdUp made of entries

vars == <<pvcs, sas, pods, running, inv, hist, entries, parsed>>

cluster == <<pvcs, sas, pods, running>>

(***************************************************************************)
(* Strings                                                                 *)
(***************************************************************************)
Empty == <<>>

AlreadyExistsText == <<"a", "l", "r", "e", "a", "d", "y", " ", "e", "x", "i", "s", "t", "s">>

NotFoundText == <<"n", "o", "t", " ", "f", "o", "u", "n", "d">>

ForbiddenText == <<"i", "s", " ", "f", "o", "r", "b", "i", "d", "d", "e", "n">>

InvalidText == <<"i", "s", " ", "i", "n", "v", "a", "l", "i", "d">>

PVCResource == <<"p", "e", "r", "s", "i", "s", "t", "e", "n", "t", "v", "o", "l", "u", "m", "e", "c", "l", "a", "i", "m", "s">>

SAResource == <<"s", "e", "r", "v", "i", "c", "e", "a", "c", "c", "o", "u", "n", "t", "s">>

PodResource == <<"p", "o", "d", "s">>

DefaultSA == <<"d", "e", "v", "-", "v", "s", "c", "o", "d", "e">>

DefaultStorageSize == <<"2", "0", "G", "i">>

Digits == {"0", "1", "2", "3", "4", "5", "6", "7", "8", "9"}

Lower == {"a", "b", "c", "d", "e", "f", "g", "h", "i", "j", "k", "l", "m",
          "n", "o", "p", "q", "r", "s", "t", "u", "v", "w", "x", "y", "z"}

\* strings.Contains(s, sub)
Contains(s, sub) ==
    \E i \in 0..(Len(s) - Len(sub)) : SubSeq(s, i + 1, i + Len(sub)) = sub

\* %q of a name
Quoted(s) == <<"\"">> \o s \o <<"\"">>

(***************************************************************************)
(* The control plane's answers                                             *)
(***************************************************************************)
NoErr == [reason |-> "nil", resource |-> Empty, name |-> Empty]

StatusErr(reason, resource, name) ==
    [reason |-> reason, resource |-> resource, name |-> name]

\* err.Error(): the message of the API status
ErrorString(err) ==
    LET subject == IF err.name = Empty THEN err.resource \o <<" ">>
                   ELSE err.resource \o <<" ">> \o Quoted(err.name) \o <<" ">>
    IN  CASE err.reason = "AlreadyExists" -> subject \o AlreadyExistsText
          [] err.reason = "NotFound"      -> subject \o NotFoundText
          [] err.reason = "Forbidden"     -> subject \o ForbiddenText
          [] err.reason = "Invalid"       -> subject \o InvalidText
          [] OTHER                        -> Empty

\* metadata.name must be a DNS-1123 subdomain
ValidName(s) ==
    /\ Len(s) > 0
    /\ \A i \in 1..Len(s) : s[i] \in Lower \cup Digits \cup {"-", "."}

\* What a Create of `name` may answer when `existing` are the objects there:
\* the request may be refused (Forbidden) whatever the state is, before its
\* body is read, so that answer names no object; an accepted request is
\* validated and then checked against the existing names.
CreateAnswers(resource, name, existing) ==
    {StatusErr("Forbidden", resource, Empty)} \cup
    (IF ~ValidName(name) THEN {StatusErr("Invalid", resource, name)}
     ELSE IF name \in existing THEN {StatusErr("AlreadyExists", resource, name)}
     ELSE {NoErr})

\* What a Delete of `name` may answer.
DeleteAnswers(resource, name, existing) ==
    {StatusErr("Forbidden", resource, name)} \cup
    (IF name \in existing THEN {NoErr}
     ELSE {StatusErr("NotFound", resource, name)})

\* resource.MustParse accepts digits followed by a known suffix
QuantitySuffixes == {Empty, <<"m">>, <<"M", "i">>, <<"G", "i">>}

RECURSIVE LeadingDigits(_)
LeadingDigits(s) ==
    IF s = Empty \/ Head(s) \notin Digits THEN 0 ELSE 1 + LeadingDigits(Tail(s))

QuantityOK(s) ==
    LET k == LeadingDigits(s)
    IN  k >= 1 /\ SubSeq(s, k + 1, Len(s)) \in QuantitySuffixes

(***************************************************************************)
(* Invocations                                                             *)
(***************************************************************************)
Procs == {"p1", "p2"}

NameA == <<"a">>

NameB == <<"b">>

Names == {NameA, NameB}

\* a ServiceAccount name holding a space, as --service-account accepts any string
SpacedSA == AlreadyExistsText

Image == <<"i">>

Quantities == {Empty, <<"1">>, <<"x">>}

\* filepath.Join(homedir.HomeDir(), ".kube", "config")
HomeKubeconfig == <<"~", "/", ".", "k", "u", "b", "e", "/", "c", "o", "n", "f", "i", "g">>

\* a path the environment variable KUBECONFIG may hold
OtherKubeconfig == <<"/", "k">>

\* the values of KUBECONFIG: unset, or a path
KubeconfigEnv == {Empty, OtherKubeconfig}

\* the file BuildConfigFromFlags is given when KUBECONFIG holds env
KubeconfigPath(env) == HomeKubeconfig

NoArgs ==
    [name |-> Empty, image |-> Empty, sa |-> Empty, pvc |-> Empty,
     storage |-> Empty, cpu |-> Empty, memory |-> Empty, withPVC |-> FALSE,
     kubeconfig |-> Empty]

UpArgs ==
    [name : Names \cup {Empty}, image : {Empty, Image}, sa : {Empty, SpacedSA},
     pvc : {Empty, NameB}, storage : Quantities, cpu : Quantities,
     memory : Quantities, withPVC : {FALSE}, kubeconfig : KubeconfigEnv]

RmArgs ==
    {[NoArgs EXCEPT !.name = n, !.withPVC = w, !.kubeconfig = k] :
        n \in Names \cup {Empty}, w \in BOOLEAN, k \in KubeconfigEnv}

AttachArgs ==
    {[NoArgs EXCEPT !.name = n, !.kubeconfig = k] :
        n \in Names \cup {Empty}, k \in KubeconfigEnv}

NoRes == [kind |-> "none", step |-> "", err |-> NoErr]

Idle ==
    [cmd |-> "idle", args |-> NoArgs, pc |-> "idle", log |-> <<>>,
     res |-> NoRes, pre |-> [pvcs |-> {}, sas |-> {}, pods |-> {}],
     session |-> "None", attempts |-> 0, fwd |-> 0, target |-> "unknown",
     cause |-> "", config |-> Empty]

\* one request of an invocation and the answer it got
Req(op, resource, name, err) ==
    [op |-> op, resource |-> resource, name |-> name, err |-> err]

\* the invocation returns err from RunE: main prints it and exits 1
Failed(i, step, err, log) ==
    [i EXCEPT !.pc = "done", !.log = log,
              !.res = [kind |-> "error", step |-> step, err |-> err]]

\* RunE returns nil
Succeeded(i, log) ==
    [i EXCEPT !.pc = "done", !.log = log,
              !.res = [kind |-> "ok", step |-> "", err |-> NoErr]]

\* resource.MustParse panics: the process dies where it stands
Panicked(i, step) ==
    [i EXCEPT !.pc = "done",
              !.res = [kind |-> "panic", step |-> step, err |-> NoErr]]

FirstStep(c) ==
    CASE c = "up"     -> "pvc"
      [] c = "rm"     -> "rmpod"
      [] c = "attach" -> "request"

\* root.Execute: PersistentPreRunE builds the client from the kubeconfig,
\* which may be missing or unreadable, and then the command's RunE runs.
Start(p, c, a) ==
    /\ inv[p].cmd = "idle"
    /\ \E configOK \in BOOLEAN :
          LET i == [Idle EXCEPT !.cmd = c, !.args = a, !.pc = FirstStep(c),
                                !.pre = [pvcs |-> pvcs, sas |-> sas, pods |-> pods],
                                !.config = KubeconfigPath(a.kubeconfig)]
          IN  inv' = [inv EXCEPT ![p] =
                        IF configOK THEN i
                        ELSE Failed(i, "init", NoErr, <<>>)]
    /\ UNCHANGED <<cluster, hist, entries, parsed>>

\* os.Exit / return from main: the process is gone
Exit(p) ==
    /\ inv[p].pc = "done"
    /\ inv' = [inv EXCEPT ![p] = Idle]
    /\ UNCHANGED <<cluster, hist, entries, parsed>>

(***************************************************************************)
(* kdev up                                                                 *)
(***************************************************************************)
\* the defaults cmdUp applies
SAName(a) == IF a.sa = Empty THEN DefaultSA ELSE a.sa

PVCName(a) == IF a.pvc = Empty THEN a.name ELSE a.pvc

StorageSize(a) == IF a.storage = Empty THEN DefaultStorageSize ELSE a.storage

\* if err != nil after the PVC create
PVCErrorFatal_Tolerant(err) ==
    err # NoErr /\ ~Contains(ErrorString(err), AlreadyExistsText)

PVCErrorFatal(err) == err # NoErr

\* if err != nil && !strings.Contains(err.Error(), "already exists")
SAErrorFatal_Strict(err) == err # NoErr

SAErrorFatal(err) ==
    err # NoErr /\ ~Contains(ErrorString(err), AlreadyExistsText)

\* the step that follows a create that was not fatal
UpNextStep_Swapped(step) ==
    CASE step = "pvc" -> "pod"
      [] step = "pod" -> "sa"
      [] step = "sa"  -> "done"

UpNextStep(step) ==
    CASE step = "pvc" -> "sa"
      [] step = "sa"  -> "pod"
      [] step = "pod" -> "done"

\* where the invocation stands after a create that was not fatal
Advance(i, step, log) ==
    IF UpNextStep(step) = "done" THEN Succeeded(i, log)
    ELSE [i EXCEPT !.pc = UpNextStep(step), !.log = log]

\* validation, defaults, the PVC descriptor and its Create
UpCreatePVC(p) ==
    /\ inv[p].cmd = "up" /\ inv[p].pc = "pvc"
    /\ LET i == inv[p]
           a == i.args
       IN  IF a.name = Empty \/ a.image = Empty
           THEN /\ inv' = [inv EXCEPT ![p] = Failed(i, "validate", NoErr, i.log)]
                /\ UNCHANGED pvcs
           ELSE IF ~QuantityOK(StorageSize(a))
           THEN /\ inv' = [inv EXCEPT ![p] = Panicked(i, "storage")]
                /\ UNCHANGED pvcs
           ELSE \E err \in CreateAnswers(PVCResource, PVCName(a), pvcs) :
                  LET log == Append(i.log, Req("create", PVCResource, PVCName(a), err))
                  IN  /\ pvcs' = IF err = NoErr THEN pvcs \cup {PVCName(a)} ELSE pvcs
                      /\ inv' = [inv EXCEPT ![p] =
                                   IF PVCErrorFatal(err)
                                   THEN Failed(i, "pvc", err, log)
                                   ELSE Advance(i, "pvc", log)]
    /\ UNCHANGED <<sas, pods, running, hist, entries, parsed>>

\* the ServiceAccount descriptor and its Create
UpCreateSA(p) ==
    /\ inv[p].cmd = "up" /\ inv[p].pc = "sa"
    /\ LET i == inv[p]
           a == i.args
       IN  \E err \in CreateAnswers(SAResource, SAName(a), sas) :
              LET log == Append(i.log, Req("create", SAResource, SAName(a), err))
              IN  /\ sas' = IF err = NoErr THEN sas \cup {SAName(a)} ELSE sas
                  /\ inv' = [inv EXCEPT ![p] =
                               IF SAErrorFatal(err)
                               THEN Failed(i, "sa", err, log)
                               ELSE Advance(i, "sa", log)]
    /\ UNCHANGED <<pvcs, pods, running, hist, entries, parsed>>

\* What the Pod Create may answer: the Pod names its ServiceAccount, and
\* that name is validated with the Pod's own.
PodCreateAnswers(a) ==
    IF ValidName(SAName(a)) THEN CreateAnswers(PodResource, a.name, pods)
    ELSE {StatusErr("Forbidden", PodResource, Empty),
          StatusErr("Invalid", PodResource, a.name)}

\* a variant that deletes the PVC again when the Pod create fails
UpCreatePod_Rollback(p) ==
    /\ inv[p].cmd = "up" /\ inv[p].pc = "pod"
    /\ LET i == inv[p]
           a == i.args
       IN  IF (a.cpu # Empty /\ ~QuantityOK(a.cpu))
              \/ (a.memory # Empty /\ ~QuantityOK(a.memory))
           THEN /\ inv' = [inv EXCEPT ![p] = Panicked(i, "resources")]
                /\ UNCHANGED <<pods, pvcs>>
           ELSE \E err \in PodCreateAnswers(a) :
                  LET log == Append(i.log, Req("create", PodResource, a.name, err))
                  IN  /\ pods' = IF err = NoErr THEN pods \cup {a.name} ELSE pods
                      /\ pvcs' = IF err = NoErr THEN pvcs ELSE pvcs \ {PVCName(a)}
                      /\ inv' = [inv EXCEPT ![p] =
                                   IF err # NoErr
                                   THEN Failed(i, "pod", err,
                                          Append(log, Req("delete", PVCResource, PVCName(a), NoErr)))
                                   ELSE Advance(i, "pod", log)]
    /\ UNCHANGED <<sas, running, hist, entries, parsed>>

\* labels, node selector, env, resources, the Pod descriptor and its Create
UpCreatePod(p) ==
    /\ inv[p].cmd = "up" /\ inv[p].pc = "pod"
    /\ LET i == inv[p]
           a == i.args
       IN  IF (a.cpu # Empty /\ ~QuantityOK(a.cpu))
              \/ (a.memory # Empty /\ ~QuantityOK(a.memory))
           THEN /\ inv' = [inv EXCEPT ![p] = Panicked(i, "resources")]
                /\ UNCHANGED pods
           ELSE \E err \in PodCreateAnswers(a) :
                  LET log == Append(i.log, Req("create", PodResource, a.name, err))
                  IN  /\ pods' = IF err = NoErr THEN pods \cup {a.name} ELSE pods
                      /\ inv' = [inv EXCEPT ![p] =
                                   IF err # NoErr
                                   THEN Failed(i, "pod", err, log)
                                   ELSE Advance(i, "pod", log)]
    /\ UNCHANGED <<pvcs, sas, running, hist, entries, parsed>>

\* the kubelet starts the container of a Pod that was created: its command
\* is an idle loop, so it stays running
KubeletStartsPod(n) ==
    /\ n \in pods \ running
    /\ running' = running \cup {n}
    /\ UNCHANGED <<pvcs, sas, pods, inv, hist, entries, parsed>>

(***************************************************************************)
(* kdev rm                                                                 *)
(***************************************************************************)
\* if err != nil after the PVC delete
RmPVCErrorFatal_IgnoreNotFound(err) == err # NoErr /\ err.reason # "NotFound"

RmPVCErrorFatal(err) == err # NoErr

\* a variant that goes on to the PVC whether --with-pvc was given or not
RmDeletePod_Always(p) ==
    /\ inv[p].cmd = "rm" /\ inv[p].pc = "rmpod"
    /\ LET i == inv[p]
           a == i.args
       IN  IF a.name = Empty
           THEN /\ inv' = [inv EXCEPT ![p] = Failed(i, "validate", NoErr, i.log)]
                /\ UNCHANGED <<pods, running>>
           ELSE \E err \in DeleteAnswers(PodResource, a.name, pods) :
                  LET log == Append(i.log, Req("delete", PodResource, a.name, err))
                  IN  /\ pods' = IF err = NoErr THEN pods \ {a.name} ELSE pods
                      /\ running' = IF err = NoErr THEN running \ {a.name} ELSE running
                      /\ inv' = [inv EXCEPT ![p] =
                                   IF err # NoErr THEN Failed(i, "rmpod", err, log)
                                   ELSE IF TRUE
                                   THEN [i EXCEPT !.pc = "rmpvc", !.log = log]
                                   ELSE Succeeded(i, log)]
    /\ UNCHANGED <<pvcs, sas, hist, entries, parsed>>

\* a variant that takes a Pod that is not there for a Pod deleted
RmDeletePod_IgnoreNotFound(p) ==
    /\ inv[p].cmd = "rm" /\ inv[p].pc = "rmpod"
    /\ LET i == inv[p]
           a == i.args
       IN  IF a.name = Empty
           THEN /\ inv' = [inv EXCEPT ![p] = Failed(i, "validate", NoErr, i.log)]
                /\ UNCHANGED <<pods, running>>
           ELSE \E err \in DeleteAnswers(PodResource, a.name, pods) :
                  LET log == Append(i.log, Req("delete", PodResource, a.name, err))
                  IN  /\ pods' = IF err = NoErr THEN pods \ {a.name} ELSE pods
                      /\ running' = IF err = NoErr THEN running \ {a.name} ELSE running
                      /\ inv' = [inv EXCEPT ![p] =
                                   IF err # NoErr /\ err.reason # "NotFound"
                                   THEN Failed(i, "rmpod", err, log)
                                   ELSE IF a.withPVC
                                   THEN [i EXCEPT !.pc = "rmpvc", !.log = log]
                                   ELSE Succeeded(i, log)]
    /\ UNCHANGED <<pvcs, sas, hist, entries, parsed>>

\* the Delete of the Pod named name
RmDeletePod(p) ==
    /\ inv[p].cmd = "rm" /\ inv[p].pc = "rmpod"
    /\ LET i == inv[p]
           a == i.args
       IN  IF a.name = Empty
           THEN /\ inv' = [inv EXCEPT ![p] = Failed(i, "validate", NoErr, i.log)]
                /\ UNCHANGED <<pods, running>>
           ELSE \E err \in DeleteAnswers(PodResource, a.name, pods) :
                  LET log == Append(i.log, Req("delete", PodResource, a.name, err))
                  IN  /\ pods' = IF err = NoErr THEN pods \ {a.name} ELSE pods
                      /\ running' = IF err = NoErr THEN running \ {a.name} ELSE running
                      /\ inv' = [inv EXCEPT ![p] =
                                   IF err # NoErr THEN Failed(i, "rmpod", err, log)
                                   ELSE IF a.withPVC
                                   THEN [i EXCEPT !.pc = "rmpvc", !.log = log]
                                   ELSE Succeeded(i, log)]
    /\ UNCHANGED <<pvcs, sas, hist, entries, parsed>>

\* a variant that deletes the PVCs of the namespace as a collection
RmDeletePVC_Collection(p) ==
    /\ inv[p].cmd = "rm" /\ inv[p].pc = "rmpvc"
    /\ LET i == inv[p]
           a == i.args
       IN  \E err \in DeleteAnswers(PVCResource, a.name, pvcs) :
              LET log == Append(i.log, Req("delete", PVCResource, a.name, err))
              IN  /\ pvcs' = IF err = NoErr THEN {} ELSE pvcs
                  /\ inv' = [inv EXCEPT ![p] =
                               IF RmPVCErrorFatal(err)
                               THEN Failed(i, "rmpvc", err, log)
                               ELSE Succeeded(i, log)]
    /\ UNCHANGED <<sas, pods, running, hist, entries, parsed>>

\* if deletePVC: the Delete of the PVC named name
RmDeletePVC(p) ==
    /\ inv[p].cmd = "rm" /\ inv[p].pc = "rmpvc"
    /\ LET i == inv[p]
           a == i.args
       IN  \E err \in DeleteAnswers(PVCResource, a.name, pvcs) :
              LET log == Append(i.log, Req("delete", PVCResource, a.name, err))
              IN  /\ pvcs' = IF err = NoErr THEN pvcs \ {a.name} ELSE pvcs
                  /\ inv' = [inv EXCEPT ![p] =
                               IF RmPVCErrorFatal(err)
                               THEN Failed(i, "rmpvc", err, log)
                               ELSE Succeeded(i, log)]
    /\ UNCHANGED <<sas, pods, running, hist, entries, parsed>>

(***************************************************************************)
(* kdev attach                                                             *)
(***************************************************************************)
MaxInput == 2

\* the order of the session's states
Rank(s) ==
    CASE s = "None"       -> 0
      [] s = "Requesting" -> 1
      [] s = "Connecting" -> 2
      [] s = "Streaming"  -> 3
      [] s = "Closed"     -> 4

\* validation, the shell default and the exec request
AttachRequest(p) ==
    /\ inv[p].cmd = "attach" /\ inv[p].pc = "request"
    /\ LET i == inv[p]
       IN  inv' = [inv EXCEPT ![p] =
                     IF i.args.name = Empty
                     THEN Failed(i, "validate", NoErr, i.log)
                     ELSE [i EXCEPT !.pc = "config", !.session = "Requesting"]]
    /\ UNCHANGED <<cluster, hist, entries, parsed>>

\* BuildConfigFromFlags and NewSPDYExecutor; either may fail
AttachConfig(p) ==
    /\ inv[p].cmd = "attach" /\ inv[p].pc = "config"
    /\ LET i == inv[p]
       IN  \E ok \in BOOLEAN :
              inv' = [inv EXCEPT ![p] =
                        IF ok THEN [i EXCEPT !.pc = "stream", !.session = "Connecting"]
                        ELSE [Failed(i, "config", NoErr, i.log)
                                 EXCEPT !.session = "Closed", !.cause = "config"]]
    /\ UNCHANGED <<cluster, hist, entries, parsed>>

\* What the upgrade of the exec request may answer: it may be refused
\* whatever the state is; an accepted request needs the Pod to exist and
\* its container to be running.
ExecAnswers(name) ==
    {StatusErr("Forbidden", PodResource, name)} \cup
    (IF name \notin pods THEN {StatusErr("NotFound", PodResource, name)}
     ELSE IF name \notin running THEN {StatusErr("BadRequest", PodResource, name)}
     ELSE {NoErr})

\* a variant in which the streams are started whatever the upgrade answered
AttachConnect_Blind(p) ==
    /\ inv[p].cmd = "attach" /\ inv[p].pc = "stream" /\ inv[p].session = "Connecting"
    /\ LET i == inv[p]
           a == i.args
       IN  \E err \in ExecAnswers(a.name) :
              inv' = [inv EXCEPT ![p] =
                        [i EXCEPT !.log = Append(i.log, Req("exec", PodResource, a.name, err)),
                                  !.attempts = i.attempts + 1,
                                  !.target = IF a.name \in running THEN "up" ELSE "down",
                                  !.session = "Streaming"]]
    /\ UNCHANGED <<cluster, hist, entries, parsed>>

\* StreamWithContext: the connection is made and upgraded
AttachConnect(p) ==
    /\ inv[p].cmd = "attach" /\ inv[p].pc = "stream" /\ inv[p].session = "Connecting"
    /\ LET i == inv[p]
           a == i.args
       IN  \E err \in ExecAnswers(a.name) :
              LET j == [i EXCEPT !.attempts = i.attempts + 1,
                                 !.target = IF a.name \in running THEN "up" ELSE "down"]
                  log == Append(i.log, Req("exec", PodResource, a.name, err))
              IN  inv' = [inv EXCEPT ![p] =
                            IF err # NoErr
                            THEN [Failed(j, "connect", err, log)
                                     EXCEPT !.session = "Closed", !.cause = "refused"]
                            ELSE [j EXCEPT !.log = log, !.session = "Streaming"]]
    /\ UNCHANGED <<cluster, hist, entries, parsed>>

\* StreamWithContext: a byte of os.Stdin is copied to the remote side
AttachForward(p) ==
    /\ inv[p].cmd = "attach" /\ inv[p].session = "Streaming"
    /\ inv[p].fwd < MaxInput
    /\ inv' = [inv EXCEPT ![p].fwd = @ + 1]
    /\ UNCHANGED <<cluster, hist, entries, parsed>>

\* StreamWithContext returns: the remote shell exited, with status 0 or not
AttachRemoteExit(p) ==
    /\ inv[p].cmd = "attach" /\ inv[p].session = "Streaming"
    /\ LET i == [inv[p] EXCEPT !.session = "Closed", !.cause = "exit"]
       IN  \E zero \in BOOLEAN :
              inv' = [inv EXCEPT ![p] =
                        IF zero THEN Succeeded(i, i.log)
                        ELSE Failed(i, "stream", StatusErr("ExitCode", Empty, Empty), i.log)]
    /\ UNCHANGED <<cluster, hist, entries, parsed>>

\* a variant that connects again when the transport drops
AttachTransportDrop_Retry(p) ==
    /\ inv[p].cmd = "attach" /\ inv[p].session = "Streaming"
    /\ inv' = [inv EXCEPT ![p] = [inv[p] EXCEPT !.session = "Connecting"]]
    /\ UNCHANGED <<cluster, hist, entries, parsed>>

\* StreamWithContext returns: the connection dropped; cmdAttach returns
\* that error as it is
AttachTransportDrop(p) ==
    /\ inv[p].cmd = "attach" /\ inv[p].session = "Streaming"
    /\ LET i == [inv[p] EXCEPT !.session = "Closed", !.cause = "drop"]
       IN  inv' = [inv EXCEPT ![p] =
                     Failed(i, "stream", StatusErr("TransportError", Empty, Empty), i.log)]
    /\ UNCHANGED <<cluster, hist, entries, parsed>>

(***************************************************************************)
(* kdev up: the key=value lists                                            *)
(***************************************************************************)
Eq == "="

\* strings.IndexByte(s, '='): 0 when there is none
RECURSIVE IndexEq(_)
IndexEq(s) ==
    IF s = Empty THEN 0
    ELSE IF Head(s) = Eq THEN 1
    ELSE IF IndexEq(Tail(s)) = 0 THEN 0
    ELSE 1 + IndexEq(Tail(s))

\* strings.Split(s, "="): every part between separators
RECURSIVE SplitAll(_)
SplitAll(s) ==
    IF IndexEq(s) = 0 THEN <<s>>
    ELSE <<SubSeq(s, 1, IndexEq(s) - 1)>> \o SplitAll(SubSeq(s, IndexEq(s) + 1, Len(s)))

\* strings.SplitN(s, "=", 2): cut at the first separator only
SplitN2(s) ==
    IF IndexEq(s) = 0 THEN <<s>>
    ELSE <<SubSeq(s, 1, IndexEq(s) - 1), SubSeq(s, IndexEq(s) + 1, Len(s))>>

\* m[k] = v on a map
Put(m, k, v) == [x \in DOMAIN m \cup {k} |-> IF x = k THEN v ELSE m[x]]

EmptyMap == [x \in {} |-> Empty]

\* for _, e := range list { parts := SplitN; if len(parts) == 2 { m[k] = v } }
RECURSIVE ParseMap(_, _)
ParseMap(m, list) ==
    IF list = <<>> THEN m
    ELSE LET parts == SplitN2(Head(list))
         IN  ParseMap(IF Len(parts) = 2 THEN Put(m, parts[1], parts[2]) ELSE m,
                      Tail(list))

\* for _, e := range envs { ...; envVars = append(envVars, EnvVar{...}) }
RECURSIVE ParseEnv(_)
ParseEnv(list) ==
    IF list = <<>> THEN <<>>
    ELSE LET parts == SplitN2(Head(list))
         IN  (IF Len(parts) = 2
              THEN <<[name |-> parts[1], value |-> parts[2]]>> ELSE <<>>)
             \o ParseEnv(Tail(list))

AppKey == <<"a", "p", "p">>

AppValue == <<"k", "d", "e", "v">>

NameKey == <<"k", "d", "e", "v", "/", "n", "a", "m", "e">>

\* the labels every Pod of kdev carries
BaseLabels(name) == Put(Put(EmptyMap, AppKey, AppValue), NameKey, name)

PodLabels(name, list) == ParseMap(BaseLabels(name), list)

\* cmdLS: LabelSelector "app=kdev"
ListSelector == [key |-> AppKey, value |-> AppValue]

\* whether a List with the selector returns an object carrying labels
Selects(sel, labels) == sel.key \in DOMAIN labels /\ labels[sel.key] = sel.value

NotParsed ==
    [done |-> FALSE, labels |-> EmptyMap, nodeSelector |-> EmptyMap, env |-> <<>>]

\* cmdUp turns the same list, given as --label, --node and --env, into the
\* Pod's labels, node selector and environment
UpParseLists ==
    /\ ~parsed.done
    /\ parsed' = [done |-> TRUE,
                  labels |-> PodLabels(NameA, entries),
                  nodeSelector |-> ParseMap(EmptyMap, entries),
                  env |-> ParseEnv(entries)]
    /\ UNCHANGED <<cluster, inv, hist, entries>>

MaxLen == 3

MaxEntries == 2

ParseChars == {"a", Eq}

\* an entry that names the key of the marker label
LabelSamples == {AppKey \o <<Eq, "a">>}

Strings == UNION {[1..k -> ParseChars] : k \in 0..MaxLen} \cup LabelSamples

Lists == UNION {[1..k -> Strings] : k \in 0..MaxEntries}

InitParse ==
    /\ pvcs = {} /\ sas = {} /\ pods = {} /\ running = {}
    /\ inv = [p \in Procs |-> Idle]
    /\ hist = <<>>
    /\ entries \in Lists
    /\ parsed = NotParsed

SpecParse == InitParse /\ [][UpParseLists]_vars

(***************************************************************************)
(* Specification: one invocation at a time against one namespace           *)
(***************************************************************************)
TypeOK ==
    /\ pvcs \subseteq Names
    /\ sas \subseteq {DefaultSA}
    /\ pods \subseteq Names
    /\ running \subseteq pods

Init ==
    /\ pvcs \in SUBSET Names
    /\ sas \in SUBSET {DefaultSA}
    /\ pods \in SUBSET Names
    /\ running \in SUBSET pods
    /\ inv = [p \in Procs |-> Idle]
    /\ hist = <<>>
    /\ entries = <<>>
    /\ parsed = NotParsed

AllIdle == \A q \in Procs : inv[q].cmd = "idle"

Next ==
    \/ \E p \in Procs : AllIdle /\ \E a \in UpArgs : Start(p, "up", a)
    \/ \E p \in Procs : UpCreatePVC(p)
    \/ \E p \in Procs : UpCreateSA(p)
    \/ \E p \in Procs : UpCreatePod(p)
    \/ \E p \in Procs : AllIdle /\ \E a \in RmArgs : Start(p, "rm", a)
    \/ \E p \in Procs : RmDeletePod(p)
    \/ \E p \in Procs : RmDeletePVC(p)
    \/ \E p \in Procs : AllIdle /\ \E a \in AttachArgs : Start(p, "attach", a)
    \/ \E p \in Procs : AttachRequest(p)
    \/ \E p \in Procs : AttachConfig(p)
    \/ \E p \in Procs : AttachConnect(p)
    \/ \E p \in Procs : AttachForward(p)
    \/ \E p \in Procs : AttachRemoteExit(p)
    \/ \E p \in Procs : AttachTransportDrop(p)
    \/ \E p \in Procs : Exit(p)
    \/ \E n \in Names : KubeletStartsPod(n)

Spec == Init /\ [][Next]_vars

(***************************************************************************)
(* Specification: the same up, run again and again                         *)
(***************************************************************************)
MaxRuns == 2

\* what is kept of an invocation that ended
Summary(i) == [args |-> i.args, res |-> i.res, log |-> i.log, pre |-> i.pre]

\* the process ends and the run is noted
ExitNoted(p) ==
    /\ inv[p].pc = "done"
    /\ hist' = Append(hist, Summary(inv[p]))
    /\ inv' = [inv EXCEPT ![p] = Idle]
    /\ UNCHANGED <<cluster, entries, parsed>>

\* the operator runs the command line of the last run once more
StartAgain(p) ==
    /\ hist # <<>> /\ Len(hist) < MaxRuns
    /\ Start(p, "up", hist[Len(hist)].args)

\* the runs are typed one after the other at one shell
Shell == "p1"

NextTwice ==
    \/ AllIdle /\ hist = <<>> /\ \E a \in UpArgs : Start(Shell, "up", a)
    \/ AllIdle /\ StartAgain(Shell)
    \/ \E p \in Procs : UpCreatePVC(p)
    \/ \E p \in Procs : UpCreateSA(p)
    \/ \E p \in Procs : UpCreatePod(p)
    \/ \E p \in Procs : ExitNoted(p)

SpecTwice == Init /\ [][NextTwice]_vars

(***************************************************************************)
(* Specification: up, then rm of the same name, then the same up again     *)
(***************************************************************************)
\* the command lines of up that get as far as the PVC create
CleanupArgs ==
    {a \in UpArgs : /\ a.name # Empty /\ a.image # Empty
                    /\ QuantityOK(StorageSize(a)) /\ a.kubeconfig = Empty}

\* rm of the name the first run was given
RmOfFirst(w) == [NoArgs EXCEPT !.name = hist[1].args.name, !.withPVC = w]

NextCleanup ==
    \/ AllIdle /\ hist = <<>> /\ \E a \in CleanupArgs : Start(Shell, "up", a)
    \/ AllIdle /\ Len(hist) = 1 /\ \E w \in BOOLEAN : Start(Shell, "rm", RmOfFirst(w))
    \/ AllIdle /\ Len(hist) = 2 /\ Start(Shell, "up", hist[1].args)
    \/ \E p \in Procs : UpCreatePVC(p)
    \/ \E p \in Procs : UpCreateSA(p)
    \/ \E p \in Procs : UpCreatePod(p)
    \/ \E p \in Procs : RmDeletePod(p)
    \/ \E p \in Procs : RmDeletePVC(p)
    \/ \E p \in Procs : ExitNoted(p)

SpecCleanup == Init /\ [][NextCleanup]_vars

(***************************************************************************)
(* Specification: two up of one name at the same time                      *)
(***************************************************************************)
\* command lines of up with the name a and the default claim name
RaceArgs ==
    {a \in UpArgs : /\ a.name = NameA /\ a.pvc = Empty /\ a.sa = Empty
                    /\ a.storage = Empty /\ a.memory = Empty
                    /\ a.kubeconfig = Empty}

\* two processes, each running up once; their requests interleave freely
NextRace ==
    \/ \E p \in Procs, a \in RaceArgs : Start(p, "up", a)
    \/ \E p \in Procs : UpCreatePVC(p)
    \/ \E p \in Procs : UpCreateSA(p)
    \/ \E p \in Procs : UpCreatePod(p)

SpecRace == Init /\ [][NextRace]_vars

(***************************************************************************)
(* Properties of kdev up                                                   *)
(***************************************************************************)
UpOrder == <<PVCResource, SAResource, PodResource>>

Ups == {p \in Procs : inv[p].cmd = "up"}

\* C1: in every execution of up the create requests are submitted in the
\* order StorageClaim, Identity, Workload: the requests an invocation has
\* made, each with the answer it returned with, are always an initial part
\* of that order, so the Identity create is submitted only after the
\* StorageClaim create returned, and the Workload create only after the
\* Identity create returned.
C1_CreateOrder ==
    \A p \in Ups :
        /\ Len(inv[p].log) <= Len(UpOrder)
        /\ \A k \in 1..Len(inv[p].log) :
              /\ inv[p].log[k].op = "create"
              /\ inv[p].log[k].resource = UpOrder[k]

C1_Witness ==
    \E p \in Ups : Len(inv[p].log) = Len(UpOrder) /\ inv[p].res.kind = "ok"

C3_OnlyAlreadyExistsSwallowed ==
    \A p \in Ups :
        (Len(inv[p].log) >= 2 /\ inv[p].log[2].err # NoErr) =>
            IF inv[p].log[2].err.reason = "AlreadyExists"
            THEN inv[p].res.step # "sa"
            ELSE /\ inv[p].pc = "done"
                 /\ inv[p].res.kind = "error"
                 /\ inv[p].res.step = "sa"
                 /\ Len(inv[p].log) = 2

\* C4: up performs no rollback: when its StorageClaim create succeeded and
\* the invocation then ended without success, the StorageClaim is still in
\* the cluster when up returns, and up has issued no delete request.
C4_NoRollback ==
    \A p \in Ups :
        /\ \A k \in 1..Len(inv[p].log) : inv[p].log[k].op # "delete"
        /\ (inv[p].pc = "done" /\ inv[p].res.kind # "ok"
              /\ Len(inv[p].log) >= 1 /\ inv[p].log[1].err = NoErr) =>
               PVCName(inv[p].args) \in pvcs

C4_Witness ==
    \E p \in Ups :
        /\ inv[p].pc = "done" /\ inv[p].res.kind = "error"
        /\ inv[p].res.step = "pod"
        /\ inv[p].log[1].err = NoErr
        /\ PVCName(inv[p].args) \notin inv[p].pre.pvcs

(***************************************************************************)
(* Properties of kdev rm                                                   *)
(***************************************************************************)
\* no request of the invocation was refused and its client was built
Healthy(i) ==
    /\ i.res.step # "init"
    /\ \A k \in 1..Len(i.log) : i.log[k].err.reason # "Forbidden"

\* C6: when rm is run with storage deletion requested for a name whose
\* Workload exists and for which no StorageClaim of that name exists (and
\* the control plane refuses no request), the Workload delete takes effect,
\* the StorageClaim delete fails with NotFound, the command reports that
\* failure, and the Workload stays deleted.
C6_RmMissingClaim ==
    \A p \in Procs :
        LET i == inv[p] IN
        (i.cmd = "rm" /\ i.pc = "done" /\ i.args.withPVC
            /\ i.args.name \in i.pre.pods /\ i.args.name \notin i.pre.pvcs
            /\ Healthy(i)) =>
            /\ Len(i.log) = 2
            /\ i.log[1] = Req("delete", PodResource, i.args.name, NoErr)
            /\ i.log[2].op = "delete" /\ i.log[2].resource = PVCResource
            /\ i.log[2].err.reason = "NotFound"
            /\ i.res.kind = "error" /\ i.res.step = "rmpvc"
            /\ i.res.err.reason = "NotFound"
            /\ i.args.name \notin pods

C6_Witness ==
    \E p \in Procs :
        /\ inv[p].cmd = "rm" /\ inv[p].pc = "done" /\ inv[p].args.withPVC
        /\ inv[p].args.name \in inv[p].pre.pods
        /\ inv[p].args.name \notin inv[p].pre.pvcs
        /\ Healthy(inv[p])

(***************************************************************************)
(* Properties of kdev attach                                               *)
(***************************************************************************)
Attaches == {p \in Procs : inv[p].cmd = "attach"}

\* C7: an attach session whose target Workload does not exist or is not
\* running when the connection is made fails during Connecting: the session
\* is Closed with an error, it has not been Streaming, and no byte of the
\* caller's standard input was forwarded.
C7_DeadTargetNeverStreams ==
    \A p \in Attaches :
        inv[p].target = "down" =>
            /\ inv[p].session = "Closed"
            /\ inv[p].cause = "refused"
            /\ inv[p].fwd = 0
            /\ inv[p].res.kind = "error"
            /\ inv[p].res.err.reason \in {"NotFound", "BadRequest", "Forbidden"}

C7_Witness ==
    \E p \in Attaches :
        /\ inv[p].target = "down"
        /\ inv[p].args.name \in pods
        /\ inv[p].res.err.reason = "BadRequest"

\* C9: an attach invocation opens one attach session: the session moves only
\* forward through Requesting, Connecting, Streaming, Closed, at most one
\* connection is attempted, none after the transport dropped or the session
\* Closed, and a drop is returned to the caller as the invocation's error.
C9_OneSession ==
    [][\A p \in Procs :
          (inv[p].cmd = "attach" /\ inv'[p].cmd = "attach") =>
              /\ Rank(inv'[p].session) >= Rank(inv[p].session)
              /\ inv'[p].attempts <= 1
              /\ (inv[p].session = "Closed" => inv'[p].attempts = inv[p].attempts)
              /\ (inv'[p].cause = "drop" =>
                     /\ inv'[p].session = "Closed"
                     /\ inv'[p].pc = "done"
                     /\ inv'[p].res.kind = "error"
                     /\ inv'[p].res.err.reason = "TransportError")]_vars

C9_Witness ==
    \E p \in Attaches :
        /\ inv[p].cause = "drop"
        /\ inv[p].fwd > 0
        /\ inv[p].attempts = 1

(***************************************************************************)
(* Properties of up run twice                                              *)
(***************************************************************************)
\* the command line names an image and a Pod, and every name and quantity
\* on it is one the control plane and the quantity parser accept
WellFormed(a) ==
    /\ a.name # Empty /\ a.image # Empty
    /\ ValidName(a.name) /\ ValidName(PVCName(a)) /\ ValidName(SAName(a))
    /\ QuantityOK(StorageSize(a))
    /\ a.cpu # Empty => QuantityOK(a.cpu)
    /\ a.memory # Empty => QuantityOK(a.memory)

\* the namespace held no StorageClaim and no Workload of the run's names
Clean(r) == PVCName(r.args) \notin r.pre.pvcs /\ r.args.name \notin r.pre.pods

HasEq(e) == \E i \in 1..Len(e) : e[i] = Eq

ExactlyOneEq(e) == Cardinality({i \in 1..Len(e) : e[i] = Eq}) = 1

\* the place of the first separator of an entry that has one
FirstEq(e) == CHOOSE i \in 1..Len(e) : e[i] = Eq /\ \A j \in 1..(i - 1) : e[j] # Eq

EntryKey(e) == SubSeq(e, 1, FirstEq(e) - 1)

EntryValue(e) == SubSeq(e, FirstEq(e) + 1, Len(e))

\* env holds the entries of list, in their order, key and value unchanged
EnvHolds(env, list) ==
    /\ Len(env) = Len(list)
    /\ \A i \in 1..Len(list) :
          /\ env[i].name = EntryKey(list[i])
          /\ env[i].value = EntryValue(list[i])
          /\ env[i].name \o <<Eq>> \o env[i].value = list[i]

\* m holds the keys of list over the keys of base, each with the value of
\* the last entry that gives it
MapHolds(m, base, list) ==
    /\ DOMAIN m = DOMAIN base \cup {EntryKey(list[i]) : i \in 1..Len(list)}
    /\ \A i \in 1..Len(list) :
          (\A j \in (i + 1)..Len(list) : EntryKey(list[j]) # EntryKey(list[i])) =>
              m[EntryKey(list[i])] = EntryValue(list[i])
    /\ \A k \in DOMAIN base :
          (\A i \in 1..Len(list) : EntryKey(list[i]) # k) => m[k] = base[k]

\* C10 as amended: when up parses the label, env and node-selector lists,
\* every entry with no "=" is discarded and every entry with at least one
\* "=" is kept, cut at its first "=" (the value may hold further "="), with
\* key and value unchanged; env keeps them in their order, and the label and
\* node-selector maps hold, for each key, the value of its last entry.
C10_EntriesWithSeparatorKept ==
    parsed.done =>
        LET kept == SelectSeq(entries, HasEq)
        IN  /\ EnvHolds(parsed.env, kept)
            /\ MapHolds(parsed.nodeSelector, EmptyMap, kept)
            /\ MapHolds(parsed.labels, BaseLabels(NameA), kept)

C10_Witness ==
    /\ parsed.done
    /\ Len(entries) = 2
    /\ ~HasEq(entries[1])
    /\ HasEq(entries[2]) /\ ~ExactlyOneEq(entries[2])
    /\ Len(parsed.env) = 1

\* C10 as stated: every entry that does not hold exactly one "=" is
\* discarded, and the entries that hold exactly one are kept, key and value
\* unchanged, for env in their order.
C10_ExactlyOneSeparator ==
    parsed.done =>
        LET kept == SelectSeq(entries, ExactlyOneEq)
        IN  /\ EnvHolds(parsed.env, kept)
            /\ DOMAIN parsed.nodeSelector = {EntryKey(kept[i]) : i \in 1..Len(kept)}

\* C11: for every list of user-supplied labels, the label map of the
\* Workload that up submits holds the marker label app=kdev and the name
\* label kdev/name=<name> with exactly those values, so the Workload matches
\* the label selector that ls queries.
C11_MarkerLabelsKept ==
    parsed.done =>
        /\ AppKey \in DOMAIN parsed.labels /\ parsed.labels[AppKey] = AppValue
        /\ NameKey \in DOMAIN parsed.labels /\ parsed.labels[NameKey] = NameA
        /\ Selects(ListSelector, parsed.labels)

(***************************************************************************)
(* Properties of the credentials file                                      *)
(***************************************************************************)
\* C14: the credentials file used for the cluster calls of an invocation is
\* the path held by the environment variable KUBECONFIG when that variable
\* is set, and ~/.kube/config under the user's home directory otherwise.
C14_KubeconfigHonoured ==
    \A p \in Procs :
        inv[p].cmd # "idle" =>
            inv[p].config = IF inv[p].args.kubeconfig # Empty
                            THEN inv[p].args.kubeconfig
                            ELSE HomeKubeconfig

(***************************************************************************)
(* Properties of the quantities given to up                                *)
(***************************************************************************)
\* one of the storage, cpu and memory quantities of the command line is
\* one the quantity parser refuses
Malformed(a) ==
    \/ ~QuantityOK(StorageSize(a))
    \/ a.cpu # Empty /\ ~QuantityOK(a.cpu)
    \/ a.memory # Empty /\ ~QuantityOK(a.memory)

\* C12: when any of the CPU, memory or storage quantity strings given to up
\* is malformed, up ends in a failure raised while the descriptors are
\* built, before any create request (StorageClaim, Identity or Workload) is
\* submitted, so the cluster is left as it was.
C12_QuantityFailsBeforeRequests ==
    \A p \in Ups :
        Malformed(inv[p].args) =>
            /\ inv[p].log = <<>>
            /\ inv[p].pc = "done" => inv[p].res.kind # "ok"
            /\ pvcs = inv[p].pre.pvcs
            /\ sas = inv[p].pre.sas
            /\ pods = inv[p].pre.pods

(***************************************************************************)
(* Properties of what rm leaves alone                                      *)
(***************************************************************************)
Rms == {p \in Procs : inv[p].cmd = "rm"}

\* C13: rm without the storage option deletes only the named Workload:
\* every StorageClaim and every Identity that was there before the call is
\* still there, every other Workload too, and its only request is the delete
\* of that Workload; and rm deletes no Identity under any option.
C13_RmDeletesOnlyWorkload ==
    \A p \in Rms :
        LET i == inv[p] IN
        /\ sas = i.pre.sas
        /\ \A k \in 1..Len(i.log) : i.log[k].resource # SAResource
        /\ ~i.args.withPVC =>
              /\ pvcs = i.pre.pvcs
              /\ i.pre.pods \ {i.args.name} \subseteq pods
              /\ \A k \in 1..Len(i.log) :
                    i.log[k] = Req("delete", PodResource, i.args.name, i.log[k].err)

C13_Witness ==
    \E p \in Rms :
        /\ inv[p].pc = "done" /\ inv[p].res.kind = "ok"
        /\ ~inv[p].args.withPVC
        /\ inv[p].args.name \in inv[p].pre.pods /\ inv[p].args.name \notin pods
        /\ inv[p].args.name \in pvcs
        /\ DefaultSA \in sas

(***************************************************************************)
(* Properties of rm after up                                               *)
(***************************************************************************)
\* the run created its StorageClaim and then ended without success
PartWay(r) == Len(r.log) >= 1 /\ r.log[1].err = NoErr /\ r.res.kind # "ok"

C16_RmDeletesClaimNamedLikeWorkload ==
    Len(hist) >= 2 =>
        LET r1 == hist[1]
            r2 == hist[2]
        IN  /\ \A k \in 1..Len(r2.log) :
                  r2.log[k].op = "delete" /\ r2.log[k].name = r2.args.name
            /\ (Len(r1.log) >= 1 /\ r1.log[1].err = NoErr
                  /\ PVCName(r1.args) # r1.args.name /\ r2.args.withPVC) =>
                  PVCName(r1.args) \in pvcs

C16_Witness ==
    /\ Len(hist) >= 2
    /\ hist[1].res.kind = "ok"
    /\ PVCName(hist[1].args) # hist[1].args.name
    /\ hist[2].args.withPVC
    /\ Len(hist[2].log) = 2
    /\ hist[2].log[2].resource = PVCResource
    /\ hist[2].log[2].err = NoErr
    /\ PVCName(hist[1].args) \in pvcs

(***************************************************************************)
(* Properties of two up at the same time                                   *)
(***************************************************************************)
BothDone == \A p \in Procs : inv[p].cmd = "up" /\ inv[p].pc = "done"

\* the creates of a resource kind that the control plane accepted
Created(resource) ==
    {<<p, k>> \in Procs \X (1..3) :
        /\ k <= Len(inv[p].log)
        /\ inv[p].log[k].resource = resource
        /\ inv[p].log[k].err = NoErr}

Winners == {p \in Procs : inv[p].res.kind = "ok"}

\* C17 (as stated): for two up of one name with the default claim name, run
\* at the same time against a control plane that refuses only duplicate
\* names and both getting as far as their first create, at most one reports
\* success, the Workload is created exactly once,
\* and after both finish the StorageClaim of that name exists.
C17_WorkloadCreatedExactlyOnce ==
    (BothDone /\ \A p \in Procs : Healthy(inv[p]) /\ Len(inv[p].log) >= 1) =>
        /\ Cardinality(Winners) <= 1
        /\ Cardinality(Created(PodResource)) = 1
        /\ NameA \in pvcs

\* C17 (amended): for two up of one name with the default claim name, run at
\* the same time in any interleaving, at most one goes past its StorageClaim
\* create, so at most one reports success and the StorageClaim and the
\* Workload are each created at most once; a success created the Workload;
\* and when the control plane refused only duplicate names and a StorageClaim
\* create was submitted, the StorageClaim exists after both have finished.
C17_AtMostOneWinner ==
    /\ Cardinality({p \in Procs : Len(inv[p].log) > 1}) <= 1
    /\ Cardinality(Winners) <= 1
    /\ Cardinality(Created(PVCResource)) <= 1
    /\ Cardinality(Created(PodResource)) <= 1
    /\ \A p \in Winners :
          /\ Len(inv[p].log) = 3
          /\ inv[p].log[3] = Req("create", PodResource, NameA, NoErr)
          /\ NameA \in pods /\ NameA \in pvcs
    /\ (BothDone /\ (\A p \in Procs : Healthy(inv[p]))
          /\ \E p \in Procs : Len(inv[p].log) >= 1) => NameA \in pvcs

C17_Witness ==
    /\ BothDone
    /\ \E p, q \in Procs :
          /\ inv[p].res.kind = "ok"
          /\ inv[q].res.kind = "error" /\ inv[q].res.step = "pvc"
          /\ inv[q].res.err.reason = "AlreadyExists"
          /\ inv[q].pre.pvcs = inv[p].pre.pvcs
====
